---- MODULE Spec2Model ----
(***************************************************************************)
(* ReferencesDatasetReader (parsli/dataset_readers/references.py).         *)
(*                                                                         *)
(* Text is modelled as a sequence of characters, a character being a       *)
(* one-character string.  SEP stands for the full-width semicolon U+FF1B   *)
(* that separates the entries of the references_all cell and MARK for the  *)
(* cross-trial marker "|".  A token is modelled by its text.  The result   *)
(* of read_csv, of the sentence splitter and of the tokenizer is the input *)
(* of the reader: a file is a sequence of rows, a row has the              *)
(* references_all cell and the token sequences of the sentences of its     *)
(* full_text.  Indices i, j and the slices are Python's (0-based, end      *)
(* exclusive); TLA+ sequences are 1-based, so tags[i] of the code is       *)
(* tags[i + 1] here.                                                       *)
(***************************************************************************)
EXTENDS Integers, Sequences, FiniteSets, TLC

VARIABLES
    pc,             \* position of the program
    requested,      \* the coding_scheme argument passed to __init__
    coding_scheme,  \* self.coding_scheme ("unset" until line 102 runs)
    file,           \* df of line 115: the rows of the csv file
    line,           \* number of the row the outer loop is on (0: none yet)
    sentence,       \* number of the sentence the middle loop is on
    refs,           \* refs of line 118
    tokens,         \* tokens of line 120
    tags,           \* tags of line 121
    i,              \* loop variable of line 122
    j,              \* loop variable of line 123
    out,            \* the instances yielded so far, in order
    hist            \* history: the overwrites <<position, old, new>> made
                    \* on tags during the labeling of the current sentence

vars == <<pc, requested, coding_scheme, file, line, sentence, refs, tokens,
          tags, i, j, out, hist>>

----------------------------------------------------------------------------
(* Bounds and input sets *)

MaxTokens == 3
MaxLabelCellLen == 4
MaxCellLen == 5
MaxRows == 2
MaxSents == 2

SEP == ";"
MARK == "|"
Chars == {"a", "n", SEP, MARK}

Schemes == {"IOB1", "BIOUL", "BIO", "None"}

Min(a, b) == IF a < b THEN a ELSE b
Max(a, b) == IF a < b THEN b ELSE a
Range(s) == {s[k] : k \in 1..Len(s)}
SeqsUpTo(S, n) == UNION {[1..m -> S] : m \in 0..n}

\* A cell of the references_all column as read_csv delivers it: a float NaN
\* for a missing value, a text otherwise.  read_csv turns the empty field
\* and the field "nan" into the missing value, so no text cell has them.
NaNCell == [isnan |-> TRUE, text |-> <<>>]
TextCell(t) == [isnan |-> FALSE, text |-> t]
Cells(C, n) == {TextCell(t) : t \in SeqsUpTo(C, n) \ {<<>>, <<"n", "a", "n">>}}
                   \cup {NaNCell}

TokenTexts == {<<"a">>, <<"n">>, <<"n", "a">>}
Sentences == SeqsUpTo(TokenTexts, MaxTokens)

Row(c, ss) == [references_all |-> c, sents |-> ss]

\* one row with one sentence: the input of the labeling of one sentence;
\* the cells have no marker
LabelFiles == {<<Row(c, <<t>>)>> : c \in Cells(Chars \ {MARK}, MaxLabelCellLen),
                                   t \in Sentences}

\* one row, every cell up to MaxCellLen characters, two fixed sentences
ParseSentences == {<< <<"a">> >>, << <<"n", "a">>, <<"n">> >>}
ParseFiles == {<<Row(c, <<t>>)>> : c \in Cells(Chars, MaxCellLen), t \in ParseSentences}

\* several rows of several sentences over two cells and two one-token
\* sentences
StreamCells == {TextCell(<<"a">>), TextCell(<<"n", "a">>)}
StreamSentences == {<< <<"n", "a">> >>, << <<"a">> >>}
StreamFiles == SeqsUpTo({Row(c, ss) : c \in StreamCells,
                                      ss \in SeqsUpTo(StreamSentences, MaxSents)},
                        MaxRows)

----------------------------------------------------------------------------
(* The pure functions of the reader *)

\* seq[lo:hi]
Slice(seq, lo, hi) == SubSeq(seq, Min(lo, Len(seq)) + 1, Min(hi, Len(seq)))

\* (variant) seq[lo - 1:hi - 1] = new
SliceAssignLow(seq, lo, hi, new) ==
    Slice(seq, 0, lo - 1) \o new \o Slice(seq, Max(lo - 1, hi - 1), Len(seq))

\* seq[lo:hi] = new
SliceAssign(seq, lo, hi, new) ==
    Slice(seq, 0, lo) \o new \o Slice(seq, Max(lo, hi), Len(seq))

\* (variant) the missing value printed as "NaN"
str_NaN(cell) == IF cell.isnan THEN <<"N", "a", "N">> ELSE cell.text

\* str(line.references_all)
str(cell) == IF cell.isnan THEN <<"n", "a", "n">> ELSE cell.text

RECURSIVE lstrip(_)
lstrip(s) == IF s # <<>> /\ Head(s) = SEP THEN lstrip(Tail(s)) ELSE s

RECURSIVE rstrip(_)
rstrip(s) == IF s # <<>> /\ s[Len(s)] = SEP
             THEN rstrip(SubSeq(s, 1, Len(s) - 1)) ELSE s

\* (variant) s.rstrip(SEP)
strip_trailing(s) == rstrip(s)

\* s.strip(SEP)
strip(s) == rstrip(lstrip(s))

\* s.replace(MARK, "")
RECURSIVE replace(_)
replace(s) == IF s = <<>> THEN <<>>
              ELSE IF Head(s) = MARK THEN replace(Tail(s))
              ELSE <<Head(s)>> \o replace(Tail(s))

\* s.split(SEP)
RECURSIVE split(_)
split(s) ==
    IF \A k \in 1..Len(s) : s[k] # SEP THEN <<s>>
    ELSE LET p == CHOOSE k \in 1..Len(s) :
                      s[k] = SEP /\ \A m \in 1..(k - 1) : s[m] # SEP
         IN <<SubSeq(s, 1, p - 1)>> \o split(SubSeq(s, p + 1, Len(s)))

\* line 118
ParseRefs(cell) == split(replace(strip(str(cell))))

\* "".join(token.text for token in toks)
RECURSIVE join(_)
join(toks) == IF toks = <<>> THEN <<>> ELSE Head(toks) \o join(Tail(toks))

\* (variant) refs held as one string, "in" being the substring test
MatchesSubstring(toks, a, b, rf) ==
    LET t == join(Slice(toks, a, b))
    IN \E r \in Range(rf) : \E m \in 0..Len(r) : Slice(r, m, m + Len(t)) = t

\* the condition of line 124
Matches(toks, a, b, rf) == join(Slice(toks, a, b)) \in Range(rf)

\* (variant) the tag list of the previous sentence kept when it fits
StaleTags(toks) ==
    IF Len(tags) = Len(toks) THEN tags ELSE [k \in 1..Len(toks) |-> "O"]

\* line 121
FreshTags(toks) == [k \in 1..Len(toks) |-> "O"]

\* (variant) ["I"] * (b - a)
IRunLong(a, b) == [k \in 1..(b - a) |-> "I"]

\* ["I"] * (b - a - 1)
IRun(a, b) == [k \in 1..(b - a - 1) |-> "I"]

\* (variant) the inner range stops one short: range(a + 1, n)
NextSpanShort(n, a, b) ==
    IF b + 1 < n THEN [pc |-> "test", i |-> a, j |-> b + 1]
    ELSE IF a + 1 < n THEN [pc |-> "test", i |-> a + 1, j |-> a + 2]
    ELSE [pc |-> "yield", i |-> a, j |-> b]

\* The loop headers of lines 122-123: the span tried after span (a, b) of a
\* sentence of n tokens, or "yield" when both ranges are exhausted.
NextSpan(n, a, b) ==
    IF b + 1 <= n THEN [pc |-> "test", i |-> a, j |-> b + 1]
    ELSE IF a + 1 < n THEN [pc |-> "test", i |-> a + 1, j |-> a + 2]
    ELSE [pc |-> "yield", i |-> a, j |-> b]

\* The first span of a sentence of n tokens.
FirstSpan(n) ==
    IF 0 < n THEN [pc |-> "test", i |-> 0, j |-> 1]
    ELSE [pc |-> "yield", i |-> 0, j |-> 0]

\* allennlp's to_bioul(tags, encoding="IOB1") on untyped labels: a span is
\* opened by a B, or by an I that follows an O or starts the sequence, and
\* runs to the tag before the next O or B.
to_bioul(tgs) ==
    [k \in 1..Len(tgs) |->
        LET opens == tgs[k] = "B" \/ k = 1 \/ tgs[k - 1] = "O"
            closes == k = Len(tgs) \/ tgs[k + 1] # "I"
        IN IF tgs[k] = "O" THEN "O"
           ELSE IF opens /\ closes THEN "U"
           ELSE IF opens THEN "B"
           ELSE IF closes THEN "L"
           ELSE "I"]

\* lines 129-146
text_to_instance(toks, tgs) ==
    [tokens |-> toks,
     words |-> toks,
     tags |-> IF coding_scheme = "BIOUL" THEN to_bioul(tgs) ELSE tgs]

----------------------------------------------------------------------------
(* The program *)

Init ==
    /\ pc = "new"
    /\ requested = "unset"
    /\ coding_scheme = "unset"
    /\ file = <<>>
    /\ line = 0
    /\ sentence = 0
    /\ refs = <<>>
    /\ tokens = <<>>
    /\ tags = <<>>
    /\ i = 0
    /\ j = 0
    /\ out = <<>>
    /\ hist = {}

\* (variant) __init__ without the check of line 97
ConstructUnchecked(cs) ==
    /\ pc = "new"
    /\ requested' = cs
    /\ pc' = "ready"
    /\ coding_scheme' = cs
    /\ UNCHANGED <<file, line, sentence, refs, tokens, tags, i, j, out, hist>>

\* __init__(coding_scheme = cs)
Construct(cs) ==
    /\ pc = "new"
    /\ requested' = cs
    /\ IF cs \notin {"IOB1", "BIOUL"}
       THEN /\ pc' = "failed"
            /\ UNCHANGED coding_scheme
       ELSE /\ pc' = "ready"
            /\ coding_scheme' = cs
    /\ UNCHANGED <<file, line, sentence, refs, tokens, tags, i, j, out, hist>>

\* _read(file_path) up to the loop: df = read_csv(file_path)
Read(F) ==
    /\ pc = "ready"
    /\ \E f \in F : file' = f
    /\ line' = 0
    /\ pc' = "row"
    /\ UNCHANGED <<requested, coding_scheme, sentence, refs, tokens, tags,
                   i, j, out, hist>>

\* for line in df.itertuples(): refs = ...
NextLine ==
    /\ pc = "row"
    /\ IF line < Len(file)
       THEN /\ line' = line + 1
            /\ refs' = ParseRefs(file[line + 1].references_all)
            /\ sentence' = 0
            /\ pc' = "sent"
       ELSE /\ pc' = "done"
            /\ UNCHANGED <<line, refs, sentence>>
    /\ UNCHANGED <<requested, coding_scheme, file, tokens, tags, i, j, out, hist>>

\* for sentence in split_sentences(line.full_text): tokens = ...; tags = ...
NextSentence ==
    /\ pc = "sent"
    /\ IF sentence < Len(file[line].sents)
       THEN LET toks == file[line].sents[sentence + 1]
                first == FirstSpan(Len(toks))
            IN /\ sentence' = sentence + 1
               /\ tokens' = toks
               /\ tags' = FreshTags(toks)
               /\ hist' = {}
               /\ i' = first.i
               /\ j' = first.j
               /\ pc' = first.pc
       ELSE /\ pc' = "row"
            /\ UNCHANGED <<sentence, tokens, tags, hist, i, j>>
    /\ UNCHANGED <<requested, coding_scheme, file, line, refs, out>>

\* line 124, and the loop headers when the condition is false
Test ==
    /\ pc = "test"
    /\ IF Matches(tokens, i, j, refs)
       THEN /\ pc' = "markB"
            /\ UNCHANGED <<i, j>>
       ELSE LET nxt == NextSpan(Len(tokens), i, j)
            IN /\ pc' = nxt.pc
               /\ i' = nxt.i
               /\ j' = nxt.j
    /\ UNCHANGED <<requested, coding_scheme, file, line, sentence, refs,
                   tokens, tags, out, hist>>

Overwrites(old, new) ==
    {<<k, old[k], new[k]>> : k \in {m \in 1..Min(Len(old), Len(new)) : old[m] # new[m]}}

\* (variant) seq[idx + 1] = v
SetItemNext(seq, idx, v) == [seq EXCEPT ![idx + 2] = v]

\* seq[idx] = v
SetItem(seq, idx, v) == [seq EXCEPT ![idx + 1] = v]

\* line 125
MarkB ==
    /\ pc = "markB"
    /\ tags' = SetItem(tags, i, "B")
    /\ hist' = hist \cup Overwrites(tags, tags')
    /\ pc' = "markI"
    /\ UNCHANGED <<requested, coding_scheme, file, line, sentence, refs,
                   tokens, i, j, out>>

\* line 126, and the loop headers after it
MarkI ==
    /\ pc = "markI"
    /\ tags' = SliceAssign(tags, i + 1, j, IRun(i, j))
    /\ hist' = hist \cup Overwrites(tags, tags')
    /\ LET nxt == NextSpan(Len(tokens), i, j)
       IN /\ pc' = nxt.pc
          /\ i' = nxt.i
          /\ j' = nxt.j
    /\ UNCHANGED <<requested, coding_scheme, file, line, sentence, refs,
                   tokens, out>>

\* line 127
Yield ==
    /\ pc = "yield"
    /\ out' = Append(out, text_to_instance(tokens, tags))
    /\ pc' = "sent"
    /\ UNCHANGED <<requested, coding_scheme, file, line, sentence, refs,
                   tokens, tags, i, j, hist>>

Run ==
    \/ NextLine
    \/ NextSentence
    \/ Test
    \/ MarkB
    \/ MarkI
    \/ Yield

Next ==
    \/ \E cs \in Schemes : Construct(cs)
    \/ Read(LabelFiles)
    \/ Run

Spec == Init /\ [][Next]_vars

NextParse ==
    \/ \E cs \in Schemes : Construct(cs)
    \/ Read(ParseFiles)
    \/ Run

SpecParse == Init /\ [][NextParse]_vars

NextStream ==
    \/ \E cs \in Schemes : Construct(cs)
    \/ Read(StreamFiles)
    \/ Run

SpecStream == Init /\ [][NextStream]_vars

----------------------------------------------------------------------------
(* Vocabulary of the properties *)

\* the rows' sentences in reading order, as pairs <<row, sentence>>
RECURSIVE FlatUpTo(_, _)
FlatUpTo(f, r) ==
    IF r = 0 THEN <<>>
    ELSE FlatUpTo(f, r - 1) \o [s \in 1..Len(f[r].sents) |-> <<r, s>>]

\* the text of tokens a .. b-1 (0-based), with no separator
RECURSIVE SpanText(_, _, _)
SpanText(toks, a, b) ==
    IF a >= b THEN <<>> ELSE toks[a + 1] \o SpanText(toks, a + 1, b)

\* the spans <<a, b>> of toks whose text is an entry of rf
MatchSpans(toks, rf) ==
    {sp \in (0..Len(toks)) \X (0..Len(toks)) :
        sp[1] < sp[2] /\ SpanText(toks, sp[1], sp[2]) \in Range(rf)}

StartsMatch(toks, rf, k) == \E sp \in MatchSpans(toks, rf) : sp[1] = k
InsideMatch(toks, rf, k) == \E sp \in MatchSpans(toks, rf) : sp[1] < k /\ k < sp[2]

\* the tag of position k (0-based) as a function of the matching spans
FinalTag(toks, rf, k) ==
    IF StartsMatch(toks, rf, k) THEN "B"
    ELSE IF InsideMatch(toks, rf, k) THEN "I"
    ELSE "O"

FinalTags(toks, rf) == [k \in 1..Len(toks) |-> FinalTag(toks, rf, k - 1)]

Recoded(tgs) == IF coding_scheme = "BIOUL" THEN to_bioul(tgs) ELSE tgs

Labeling == pc \in {"test", "markB", "markI", "yield"}
Parsed == pc \in {"sent", "test", "markB", "markI", "yield"}
CurCell == file[line].references_all
Rank(t) == IF t = "O" THEN 0 ELSE IF t = "I" THEN 1 ELSE 2

\* the cell text between its first and its last non-separator character
Core(s) ==
    LET idx == {k \in 1..Len(s) : s[k] # SEP}
    IN IF idx = {} THEN <<>>
       ELSE SubSeq(s, CHOOSE k \in idx : \A m \in idx : k <= m,
                      CHOOSE k \in idx : \A m \in idx : m <= k)

Unmarked(s) == SelectSeq(s, LAMBDA c : c # MARK)

RECURSIVE JoinSep(_)
JoinSep(rf) ==
    IF Len(rf) = 1 THEN rf[1] ELSE rf[1] \o <<SEP>> \o JoinSep(Tail(rf))

CountSep(s) == Cardinality({k \in 1..Len(s) : s[k] = SEP})

----------------------------------------------------------------------------
(* C1 *)

\* C1 (as claimed): in the tags handed to text_to_instance, every maximal run
\* B I* covers tokens whose concatenated text is an entry of refs.
C1_TaggedSpanIsReference ==
    pc = "yield" =>
        \A a \in 0..(Len(tags) - 1) : \A b \in (a + 1)..Len(tags) :
            ( /\ tags[a + 1] = "B"
              /\ \A k \in (a + 2)..b : tags[k] = "I"
              /\ (b = Len(tags) \/ tags[b + 1] # "I") )
            => SpanText(tokens, a, b) \in Range(refs)

----------------------------------------------------------------------------
(* C2 *)

\* C2: during the labeling of a sentence 0 <= i < j <= len(tokens) and the
\* tag list is as long as the token list after every write, and every
\* yielded instance has as many tags as tokens.
C2_TagsLength ==
    /\ Labeling => Len(tags) = Len(tokens)
    /\ pc \in {"test", "markB", "markI"} => 0 <= i /\ i < j /\ j <= Len(tokens)
    /\ \A k \in 1..Len(out) : Len(out[k].tags) = Len(out[k].tokens)

C2_Witness ==
    /\ pc = "sent"
    /\ Len(out) = 1
    /\ Len(out[1].tokens) = MaxTokens
    /\ \E e \in hist : e[3] = "I"

----------------------------------------------------------------------------
(* C3 *)

\* C3: a coding_scheme other than IOB1 and BIOUL makes the construction fail
\* with nothing read; IOB1 and BIOUL do not fail; the reader that reads has
\* one of the two schemes.
C3_SchemeValidated ==
    /\ requested \notin {"unset", "IOB1", "BIOUL"} =>
           pc = "failed" /\ file = <<>> /\ line = 0 /\ out = <<>>
    /\ requested \in {"IOB1", "BIOUL"} => pc # "failed"
    /\ pc \notin {"new", "failed"} =>
           coding_scheme \in {"IOB1", "BIOUL"} /\ coding_scheme = requested

C3_Witness == pc = "failed" /\ requested = "None" /\ coding_scheme = "unset"

----------------------------------------------------------------------------
(* C4 *)

\* C4 (as claimed): refs is the cell with its trailing separators, and only
\* those, removed, then the markers deleted, split on the separator.
C4_TrailingOnly ==
    (Parsed /\ ~CurCell.isnan) =>
        refs = split(replace(rstrip(CurCell.text)))

\* C4 (amended): refs is the list of separator-free, marker-free texts that,
\* joined by the separator, give the cell without its leading and trailing
\* separators and without its markers; it has one entry more than that text
\* has separators; the cell a;n;a gives [a, n, a].
C4_ParsedRefs ==
    (Parsed /\ ~CurCell.isnan) =>
        /\ Len(refs) >= 1
        /\ JoinSep(refs) = Unmarked(Core(CurCell.text))
        /\ \A r \in Range(refs) : \A k \in 1..Len(r) : r[k] \notin {SEP, MARK}
        /\ Len(refs) = 1 + CountSep(Unmarked(Core(CurCell.text)))
        /\ CurCell.text = <<"a", SEP, "n", SEP, "a">> =>
               refs = << <<"a">>, <<"n">>, <<"a">> >>

C4_Witness ==
    /\ Parsed
    /\ ~CurCell.isnan
    /\ Head(CurCell.text) = SEP
    /\ MARK \in Range(CurCell.text)
    /\ Len(refs) = 2
    /\ refs # split(replace(rstrip(CurCell.text)))

----------------------------------------------------------------------------
(* C5 *)

NaNText == <<"N", "a", "N">>
nanText == <<"n", "a", "n">>

Placeholder(t) ==
    (Parsed /\ CurCell.isnan) =>
        /\ refs = <<t>>
        /\ pc = "yield" =>
               \A k \in 1..Len(tags) :
                   tags[k] # "O" =>
                       \E a \in 0..(k - 1) : \E b \in k..Len(tokens) :
                           SpanText(tokens, a, b) = t

\* C5 (as claimed): a missing cell gives the one-entry list ["NaN"], and a
\* token of such a row is labeled only inside a span whose text is "NaN".
C5_PlaceholderNaN == Placeholder(NaNText)

\* C5 (amended): a missing cell gives the one-entry list ["nan"], and a
\* token of such a row is labeled only inside a span whose text is "nan".
C5_PlaceholderLower == Placeholder(nanText)

C5_Witness ==
    /\ pc = "yield"
    /\ CurCell.isnan
    /\ tags = <<"B", "I", "I">>

----------------------------------------------------------------------------
(* C6 *)

\* C6: when exactly one span of the sentence has a text that is an entry of
\* refs, the tags handed to text_to_instance are B on its first token, I on
\* its other tokens and O everywhere else.
C6_SingleMatch ==
    pc = "yield" =>
        \A sp \in MatchSpans(tokens, refs) :
            MatchSpans(tokens, refs) = {sp} =>
                tags = [k \in 1..Len(tokens) |->
                           IF k = sp[1] + 1 THEN "B"
                           ELSE IF sp[1] + 1 < k /\ k <= sp[2] THEN "I"
                           ELSE "O"]

C6_Witness ==
    /\ pc = "yield"
    /\ MatchSpans(tokens, refs) = {<<1, 3>>}
    /\ tags = <<"O", "B", "I">>

----------------------------------------------------------------------------
(* C7 *)

\* C7: the instances come one per sentence in reading order, each after the
\* labeling of its sentence; the tokens of the k-th instance are those of
\* the k-th sentence and its tags are a function of these tokens and of the
\* cell of the row of that sentence alone.
C7_OnePerSentence ==
    /\ pc \in {"new", "failed", "ready"} => out = <<>>
    /\ pc = "row" => Len(out) = Len(FlatUpTo(file, line))
    /\ pc = "sent" => Len(out) = Len(FlatUpTo(file, line - 1)) + sentence
    /\ Labeling => Len(out) = Len(FlatUpTo(file, line - 1)) + sentence - 1
    /\ pc = "done" => Len(out) = Len(FlatUpTo(file, Len(file)))
    /\ \A k \in 1..Len(out) :
           LET p == FlatUpTo(file, Len(file))[k]
               toks == file[p[1]].sents[p[2]]
           IN /\ out[k].tokens = toks
              /\ out[k].tags =
                     Recoded(FinalTags(toks, ParseRefs(file[p[1]].references_all)))

C7_Witness ==
    /\ pc = "done"
    /\ Len(out) = 4
    /\ Len(file) = 2
    /\ file[1].references_all # file[2].references_all
    /\ out[1].tokens = out[3].tokens
    /\ out[1].tags # out[3].tags
    /\ out[1].tags # out[2].tags

----------------------------------------------------------------------------
(* C8 *)

\* the sentence has a token that starts one matching span and is inside
\* another one
Overlapping ==
    \E k \in 0..(Len(tokens) - 1) :
        StartsMatch(tokens, refs, k) /\ InsideMatch(tokens, refs, k)

\* C8 (as claimed): the pass over a sentence with a token that starts one
\* matching span and is inside another one relabels a token from B to I.
C8_BOverwrittenByI ==
    (pc = "yield" /\ Overlapping) => \E e \in hist : e[2] = "B" /\ e[3] = "I"

\* a step of the pass leaves every tag that is B as it is
BStays ==
    pc \in {"markB", "markI"} =>
        \A k \in 1..Len(tags) :
            tags[k] = "B" => (k <= Len(tags') /\ tags'[k] = "B")

\* C8 (amended): no step of the pass changes a tag that is B.
C8_BNeverOverwritten == [][BStays]_vars

C8_Witness ==
    /\ pc = "yield"
    /\ Overlapping
    /\ \E e \in hist : e[2] = "I" /\ e[3] = "B"

----------------------------------------------------------------------------
(* C9 *)

\* C9: the final tag of a position is B iff a matching span starts there, I
\* iff none starts there and one with a smaller start covers it, O iff it is
\* in no matching span; and every overwrite made during the pass moves a
\* tag up in the order O, I, B.
C9_FinalTags ==
    /\ pc = "yield" => tags = FinalTags(tokens, refs)
    /\ Labeling => \A e \in hist : Rank(e[2]) < Rank(e[3])

C9_Witness ==
    /\ pc = "yield"
    /\ tags = <<"B", "B", "I">>
    /\ <<2, "I", "B">> \in hist
    /\ Len(refs) = 2

----------------------------------------------------------------------------
(* C10 *)

\* C10: in every state of the labeling of a sentence, every tag is O, B or I
\* and every I has a B or an I right before it.
C10_WellFormed ==
    Labeling =>
        \A k \in 1..Len(tags) :
            /\ tags[k] \in {"O", "B", "I"}
            /\ tags[k] = "I" => (k > 1 /\ tags[k - 1] \in {"B", "I"})

C10_Witness ==
    /\ pc = "markI"
    /\ i = 2
    /\ tags = <<"B", "I", "B">>
====
